---- MODULE Spec2Model ----
(***************************************************************************)
(* Model of logo_pack_starter/build_logo_pack.py: the near-white           *)
(* background remover, the two canvas placement functions, the flag        *)
(* mockup helper and the batch run of main.                                *)
(*                                                                         *)
(* Arithmetic.  The code computes in IEEE doubles and truncates with       *)
(* int().  A pad ratio is held here as an exact fraction <<n, d>> and a    *)
(* scale as an exact fraction <<num, den>>; int() of a non-negative value  *)
(* is the floor, \div.  On the values explored here the doubles give the   *)
(* same integers as the exact fractions: int(size*(1 - 2*pad)) for the pad *)
(* ratios main passes and sizes up to 3000, and for 0 and 0.49 and sizes   *)
(* up to 40; int(side*(m/w)) for source sides up to 5 and padded sides m   *)
(* up to 3000; int(width*rh/rw) is a single correctly rounded division.    *)
(*                                                                         *)
(* An image is a record [width, height, mode, px]: its size, its channel   *)
(* layout and one representative pixel <<R, G, B, A>> (the per-pixel       *)
(* operations of the code are independent of the pixel's position).        *)
(***************************************************************************)
EXTENDS Integers, Sequences, FiniteSets, TLC

VARIABLES
    img,        \* the image handed to the function under study
    args,       \* the arguments of the function under study
    sq,         \* outcome of fit_on_square(img, args.w, args.pad)
    rect,       \* outcome of center_on_canvas(img, args.w, args.h, args.pad)
    flag,       \* outcome of flag_mockup(args.rw, args.rh, args.w)
    bgout,      \* outcome of remove_near_white_bg(img, args.threshold, args.tolerance)
    pc,         \* position of main
    cwdFiles,   \* image files present in the working directory
    decodable,  \* whether the chosen input file decodes
    cwdDirs,    \* directories that already exist in the working directory
    src_path,   \* main's src_path
    im,         \* main's im
    im_trans,   \* main's im_trans
    dirs,       \* directories created by ensure
    writes,     \* files written so far, in order: [group, dir, name]
    idx,        \* index of the next operation inside the current group of main
    removeCount,\* number of completed calls of remove_near_white_bg in main
    reads,      \* the images the placements of main have read
    err         \* the exception that ended main, or "none"

vars == <<img, args, sq, rect, flag, bgout, pc, cwdFiles, decodable, cwdDirs,
          src_path, im, im_trans, dirs, writes, idx, removeCount, reads, err>>

fnVars   == <<img, args, sq, rect, flag, bgout>>
mainVars == <<pc, cwdFiles, decodable, cwdDirs, src_path, im, im_trans, dirs,
              writes, idx, removeCount, reads, err>>

(***************************************************************************)
(* Bounds of the explored input domains.                                   *)
(***************************************************************************)
MaxSrc    == 4      \* source width and height range over 0..MaxSrc
MaxCanvas == 7      \* canvas width and height range over 1..MaxCanvas
MaxRatio  == 3      \* flag ratio terms range over 1..MaxRatio
MaxFlagW  == 6      \* flag base widths range over 1..MaxFlagW

\* Pad ratios as exact fractions: the ratios main passes, 0, and 0.49.
Pads == {<<0, 1>>, <<8, 100>>, <<10, 100>>, <<12, 100>>, <<18, 100>>,
         <<20, 100>>, <<25, 100>>, <<49, 100>>}

Max(a, b) == IF a >= b THEN a ELSE b
Min(a, b) == IF a <= b THEN a ELSE b

\* the padded side with the pad taken off one side only
PadSideTight(side, pad) == (side * (pad[2] - pad[1])) \div pad[2]
\* int(side * (1 - 2*pad_ratio)) for pad_ratio = pad[1]/pad[2]
PadSide(side, pad) == (side * (pad[2] - 2 * pad[1])) \div pad[2]

\* min(a/b, c/d) of two fractions with positive denominators
RatMin(p, q) == IF p[1] * q[2] <= q[1] * p[2] THEN p ELSE q

\* the scaled side rounded up, and the scaled side without the clamp to 1
ScaledCeil(side, scale) ==
    Max(1, (side * scale[1] + scale[2] - 1) \div scale[2])
ScaledNoClamp(side, scale) == (side * scale[1]) \div scale[2]
\* max(1, int(side * scale))
Scaled(side, scale) == Max(1, (side * scale[1]) \div scale[2])

Transparent      == <<0, 0, 0, 0>>
TransparentWhite == <<255, 255, 255, 0>>

\* What a call that raised leaves behind.
Raised(e, image) == [st |-> "raised", exc |-> e, img |-> image]

\* Image.resize: a new image; the receiver is left as it was.
resize(image, w, h) == [image EXCEPT !.width = w, !.height = h]

(***************************************************************************)
(* The shared body of fit_on_square / center_on_canvas / center_canvas:    *)
(* canvas of (w, h) filled with fill, content scaled into the padded box   *)
(* and pasted centred.  The result also carries img, the argument image    *)
(* as the call leaves it.                                                  *)
(***************************************************************************)
Place(image, w, h, max_w, max_h, fill) ==
    IF image.width = 0 \/ image.height = 0
    THEN Raised("ZeroDivisionError", image)
    ELSE LET scale == RatMin(<<max_w, image.width>>, <<max_h, image.height>>)
             new   == resize(image, Scaled(image.width, scale),
                                    Scaled(image.height, scale))
         IN [st |-> "ok", mode |-> "RGBA",
             canvas_w |-> w, canvas_h |-> h, fill |-> fill,
             new_w |-> new.width, new_h |-> new.height,
             x |-> (w - new.width) \div 2, y |-> (h - new.height) \div 2,
             content |-> new.px, img |-> image]

\* fit_on_square that scales its argument in place instead of a copy
fit_on_square_inplace(image, size, pad_ratio) ==
    LET max_side == PadSide(size, pad_ratio)
        r == Place(image, size, size, max_side, max_side, <<0, 0, 0, 0>>)
    IN IF r.st = "ok" THEN [r EXCEPT !.img = resize(image, r.new_w, r.new_h)]
       ELSE r
\* fit_on_square with a fill of three channels, which Pillow makes opaque
fit_on_square_opaque(image, size, pad_ratio) ==
    LET max_side == PadSide(size, pad_ratio)
    IN Place(image, size, size, max_side, max_side, <<0, 0, 0, 255>>)
fit_on_square(image, size, pad_ratio) ==
    LET max_side == PadSide(size, pad_ratio)
    IN Place(image, size, size, max_side, max_side, Transparent)

center_on_canvas(image, w, h, pad_ratio) ==
    Place(image, w, h, PadSide(w, pad_ratio), PadSide(h, pad_ratio),
          TransparentWhite)

NotRun == [st |-> "none"]

Images(maxSide) ==
    { [width |-> w, height |-> h, mode |-> "RGBA", px |-> <<10, 20, 30, 255>>] :
        w \in 0..maxSide, h \in 0..maxSide }

MainIdle ==
    /\ pc = "idle" /\ cwdFiles = {} /\ decodable = FALSE /\ cwdDirs = {}
    /\ src_path = "" /\ im = NotRun /\ im_trans = NotRun /\ dirs = {}
    /\ writes = <<>> /\ idx = 0 /\ removeCount = 0 /\ reads = {} /\ err = "none"

(***************************************************************************)
(* Specification of the placement functions on drawn inputs.               *)
(***************************************************************************)
InitPlace ==
    /\ img \in Images(MaxSrc)
    /\ args \in [w : 1..MaxCanvas, h : 1..MaxCanvas, pad : Pads]
    /\ sq = NotRun /\ rect = NotRun /\ flag = NotRun /\ bgout = NotRun
    /\ MainIdle

FitOnSquare ==
    /\ sq = NotRun
    /\ sq' = fit_on_square(img, args.w, args.pad)
    /\ img' = sq'.img
    /\ UNCHANGED <<args, rect, flag, bgout>>
    /\ UNCHANGED mainVars

CenterOnCanvas ==
    /\ rect = NotRun
    /\ rect' = center_on_canvas(img, args.w, args.h, args.pad)
    /\ img' = rect'.img
    /\ UNCHANGED <<args, sq, flag, bgout>>
    /\ UNCHANGED mainVars

NextPlace == FitOnSquare \/ CenterOnCanvas

SpecPlace == InitPlace /\ [][NextPlace]_vars

(***************************************************************************)
(* Pixels.  An RGBA pixel is <<R, G, B, A>>, an RGB pixel <<R, G, B>>.     *)
(***************************************************************************)
\* Image.convert("RGBA") of one pixel: an image without alpha is opaque
ToRGBA(mode, px) == IF mode = "RGB" THEN <<px[1], px[2], px[3], 255>> ELSE px

\* Image.paste with a mask, one band of one pixel (Pillow's BLEND8)
Blend8(mask, in1, in2) ==
    LET t == in1 * (255 - mask) + in2 * mask + 128
    IN ((t \div 256) + t) \div 256

\* The pixel (i, j) of a canvas returned by Place: canvas.paste(new, (x, y), new)
\* blends every band of new over the fill, with new's alpha as the mask.
CanvasPixel(r, i, j) ==
    IF /\ r.x <= i /\ i < r.x + r.new_w
       /\ r.y <= j /\ j < r.y + r.new_h
    THEN [b \in 1..4 |-> Blend8(r.content[4], r.fill[b], r.content[b])]
    ELSE r.fill

(***************************************************************************)
(* remove_near_white_bg: alpha becomes 0 where the pixel is near white.    *)
(* The channel arrays are uint8, so the spread is taken modulo 256.        *)
(***************************************************************************)
\* the remover with the brightness test >= in place of >
remove_near_white_bg_ge(image, threshold, tolerance) ==
    LET arr      == ToRGBA(image.mode, image.px)
        max_rgb  == Max(Max(arr[1], arr[2]), arr[3])
        min_rgb  == Min(Min(arr[1], arr[2]), arr[3])
        near_white == /\ max_rgb >= threshold
                      /\ ((max_rgb - min_rgb) % 256) < tolerance
    IN [width |-> image.width, height |-> image.height, mode |-> "RGBA",
        px |-> <<arr[1], arr[2], arr[3], IF near_white THEN 0 ELSE arr[4]>>]
remove_near_white_bg(image, threshold, tolerance) ==
    LET arr      == ToRGBA(image.mode, image.px)
        max_rgb  == Max(Max(arr[1], arr[2]), arr[3])
        min_rgb  == Min(Min(arr[1], arr[2]), arr[3])
        near_white == /\ max_rgb > threshold
                      /\ ((max_rgb - min_rgb) % 256) < tolerance
    IN [width |-> image.width, height |-> image.height, mode |-> "RGBA",
        px |-> <<arr[1], arr[2], arr[3], IF near_white THEN 0 ELSE arr[4]>>]

(***************************************************************************)
(* The flag helpers nested in main.                                        *)
(***************************************************************************)
FlagPad == <<25, 100>>

center_canvas(image, w, h, pad_ratio) ==
    Place(image, w, h, PadSide(w, pad_ratio), PadSide(h, pad_ratio),
          TransparentWhite)

\* flag_mockup that hands back the placed canvas without the white backdrop
flag_mockup_unbacked(image, rw, rh, width) ==
    LET height == (width * rh) \div rw
        placed == center_canvas(image, width, height, FlagPad)
    IN IF placed.st = "raised" THEN placed
       ELSE [st |-> "ok", mode |-> "RGBA", width |-> width, height |-> height,
             fill |-> TransparentWhite, placed |-> placed, img |-> placed.img]
\* flag_mockup(rw, rh, width), with im_trans passed as image
flag_mockup(image, rw, rh, width) ==
    LET height == (width * rh) \div rw
        placed == center_canvas(image, width, height, FlagPad)
    IN IF placed.st = "raised" THEN placed
       ELSE [st |-> "ok", mode |-> "RGB", width |-> width, height |-> height,
             fill |-> <<255, 255, 255>>, placed |-> placed, img |-> placed.img]

\* The pixel (i, j) of a flag mockup, as RGBA (an RGB image has no alpha
\* channel: its pixels are opaque): bg.paste(placed.convert("RGB"), (0,0), placed)
FlagPixel(f, i, j) ==
    LET p  == CanvasPixel(f.placed, i, j)
        bg == ToRGBA(f.mode, f.fill)
    IN <<Blend8(p[4], bg[1], p[1]), Blend8(p[4], bg[2], p[2]),
         Blend8(p[4], bg[3], p[3]),
         IF f.mode = "RGB" THEN 255 ELSE Blend8(p[4], bg[4], 255)>>

(***************************************************************************)
(* Specification of flag_mockup on drawn inputs: small ratios and widths,  *)
(* and the two calls main makes.                                           *)
(***************************************************************************)
PixelAlphas == {0, 128, 255}

\* The mockups drawn have at least one row of pixels (width*rh >= rw).
FlagArgs ==
    {a \in [rw : 1..MaxRatio, rh : 1..MaxRatio, w : 1..MaxFlagW] :
        a.w * a.rh >= a.rw}
      \cup {[rw |-> 3, rh |-> 2, w |-> 900], [rw |-> 5, rh |-> 3, w |-> 1500]}

InitFlag ==
    /\ img \in { [width |-> w, height |-> h, mode |-> "RGBA",
                  px |-> <<10, 20, 30, a>>] :
                    w \in 0..MaxSrc, h \in 0..MaxSrc, a \in PixelAlphas }
    /\ args \in FlagArgs
    /\ sq = NotRun /\ rect = NotRun /\ flag = NotRun /\ bgout = NotRun
    /\ MainIdle

FlagMockup ==
    /\ flag = NotRun
    /\ flag' = flag_mockup(img, args.rw, args.rh, args.w)
    /\ img' = flag'.img
    /\ UNCHANGED <<args, sq, rect, bgout>>
    /\ UNCHANGED mainVars

NextFlag == FlagMockup

SpecFlag == InitFlag /\ [][NextFlag]_vars

(***************************************************************************)
(* Specification of remove_near_white_bg on drawn pixels and scalars.      *)
(***************************************************************************)
Levels     == {0, 230, 231, 245, 246, 255}
Thresholds == {0, 244, 245, 255}
Tolerances == {0, 1, 15, 254}

InitBg ==
    /\ img \in { [width |-> 2, height |-> 1, mode |-> "RGB", px |-> <<r, g, b>>] :
                    r \in Levels, g \in Levels, b \in Levels }
          \cup { [width |-> 2, height |-> 1, mode |-> "RGBA", px |-> <<r, g, b, a>>] :
                    r \in Levels, g \in Levels, b \in Levels, a \in PixelAlphas }
    /\ args \in [threshold : Thresholds, tolerance : Tolerances]
    /\ sq = NotRun /\ rect = NotRun /\ flag = NotRun /\ bgout = NotRun
    /\ MainIdle

RemoveNearWhiteBg ==
    /\ bgout = NotRun
    /\ bgout' = [st |-> "ok",
                 out |-> remove_near_white_bg(img, args.threshold, args.tolerance)]
    /\ UNCHANGED <<img, args, sq, rect, flag>>
    /\ UNCHANGED mainVars

NextBg == RemoveNearWhiteBg

SpecBg == InitBg /\ [][NextBg]_vars

(***************************************************************************)
(* main.  A directory is the sequence of its path components; a file name  *)
(* is the sequence of its pieces, every decimal digit a piece of its own   *)
(* and every maximal run of other characters one piece, so that two names  *)
(* are equal as sequences exactly when they are equal as strings.          *)
(***************************************************************************)
MaxMainSrc == 2     \* main's decoded image has width and height in 0..MaxMainSrc

Digits == <<"0", "1", "2", "3", "4", "5", "6", "7", "8", "9">>

\* the decimal rendering of n in an f-string
RECURSIVE Dec(_)
Dec(n) == IF n < 10 THEN <<Digits[n + 1]>>
          ELSE Dec(n \div 10) \o <<Digits[(n % 10) + 1]>>

INPUT_CANDIDATES ==
    <<"logo_input.png", "logo_input.jpg", "logo_input.jpeg", "logo_input.webp",
      "logo_input.tif", "logo_input.tiff">>

\* Files the working directory may hold: name, size, whether the name ends
\* in one of the image extensions, and the rank of its path in string order.
CwdUniverse ==
    { [name |-> "logo_input.png", size |-> 5, image |-> TRUE,  ord |-> 2],
      [name |-> "logo_input.jpg", size |-> 9, image |-> TRUE,  ord |-> 1],
      [name |-> "art.gif",        size |-> 7, image |-> TRUE,  ord |-> 0],
      [name |-> "photo.bmp",      size |-> 7, image |-> TRUE,  ord |-> 4],
      [name |-> "notes.txt",      size |-> 99, image |-> FALSE, ord |-> 3] }

\* find_input: the first candidate that exists, else the largest image file
\* (ties by path, descending), else "" for FileNotFoundError
find_input(files) ==
    LET names == {f.name : f \in files}
        hits  == {k \in 1..Len(INPUT_CANDIDATES) : INPUT_CANDIDATES[k] \in names}
        cands == {f \in files : f.image}
    IN IF hits # {}
       THEN INPUT_CANDIDATES[CHOOSE k \in hits : \A j \in hits : k <= j]
       ELSE IF cands # {}
       THEN (CHOOSE f \in cands :
                \A g \in cands :
                    \/ f.size > g.size
                    \/ (f.size = g.size /\ f.ord >= g.ord)).name
       ELSE ""

OUT_ROOT    == "logo_asset_pack"
SRC_DIR     == <<OUT_ROOT, "source">>
WEB_DIR     == <<OUT_ROOT, "web">>
IOS_DIR     == <<OUT_ROOT, "ios">>
ANDROID_DIR == <<OUT_ROOT, "android">>
DESKTOP_DIR == <<OUT_ROOT, "desktop">>
EMOJI_DIR   == <<OUT_ROOT, "emoji">>
PRINT_DIR   == <<OUT_ROOT, "print">>
FLAGS_DIR   == <<OUT_ROOT, "flags">>
SOCIAL_DIR  == <<OUT_ROOT, "social">>

\* ensure(path): os.makedirs(path, exist_ok=True) makes path and its parents
ensure(path, made) == made \cup {SubSeq(path, 1, k) : k \in 1..Len(path)}

\* whether a file can be created in directory d
DirExists(d, made) == d \in made \/ (Len(d) = 1 /\ d[1] \in cwdDirs)

DefaultThreshold == 245
DefaultTolerance == 15

\* One step of main that produces a file: what is computed (fit, center,
\* flag, or nothing new for save), and where the result is saved.
Fit(g, d, size, pad, name) ==
    [kind |-> "fit", group |-> g, dir |-> d, w |-> size, h |-> size,
     pad |-> pad, name |-> name, mk |-> FALSE]
Center(g, d, w, h, pad, name) ==
    [kind |-> "center", group |-> g, dir |-> d, w |-> w, h |-> h,
     pad |-> pad, name |-> name, mk |-> FALSE]
Flag(g, d, rw, rh, width, name) ==
    [kind |-> "flag", group |-> g, dir |-> d, w |-> width, h |-> rh,
     pad |-> <<rw, 1>>, name |-> name, mk |-> FALSE]
Save(g, d, name) ==
    [kind |-> "save", group |-> g, dir |-> d, w |-> 0, h |-> 0,
     pad |-> <<0, 1>>, name |-> name, mk |-> FALSE]

SourceOps ==
    << Save("source", SRC_DIR, <<"original_" \o src_path>>),
       Save("source", SRC_DIR, <<"logo_transparent.png">>) >>

favicon_sizes == <<16, 32, 48>>
pwa_sizes     == <<192, 256, 384, 512>>

WebOps ==
    [k \in 1..3 |-> Fit("web", WEB_DIR, favicon_sizes[k], <<8, 100>>,
                        <<"favicon-">> \o Dec(favicon_sizes[k]) \o <<".png">>)]
    \o << Save("web", WEB_DIR, <<"favicon.ico">>),
          Fit("web", WEB_DIR, 180, <<10, 100>>,
              <<"apple-touch-icon-", "1", "8", "0", ".png">>) >>
    \o [k \in 1..4 |-> Fit("web", WEB_DIR, pwa_sizes[k], <<10, 100>>,
                           <<"icon-">> \o Dec(pwa_sizes[k]) \o <<".png">>)]
    \o << Fit("web", WEB_DIR, 512, <<18, 100>>,
              <<"maskable-icon-", "5", "1", "2", ".png">>),
          Save("web", WEB_DIR, <<"site.webmanifest">>) >>

SocialOps ==
    << Fit("social", SOCIAL_DIR, 1200, <<20, 100>>,
           <<"og-", "1", "2", "0", "0", "x", "1", "2", "0", "0", ".png">>),
       Center("social", SOCIAL_DIR, 1200, 630, <<12, 100>>,
           <<"og-", "1", "2", "0", "0", "x", "6", "3", "0", ".png">>) >>

ios_sizes == <<20, 29, 40, 60, 76, 83>>
scales    == <<1, 2, 3>>

IosName(base, scale, size) ==
    <<"Icon-">> \o Dec(base) \o <<"pt@">> \o Dec(scale) \o <<"x-">>
        \o Dec(size) \o <<".png">>

\* an iOS loop that passes over nothing
IosSkipNone(base, scale) == FALSE
\* the combination the iOS loop passes over with continue
IosSkip(base, scale) == base = 83 /\ scale = 1

IosOps ==
    LET pairs == [k \in 1..(Len(ios_sizes) * Len(scales)) |->
                    [base  |-> ios_sizes[((k - 1) \div Len(scales)) + 1],
                     scale |-> scales[((k - 1) % Len(scales)) + 1]]]
        Kept(p)  == ~IosSkip(p.base, p.scale)
        kept == SelectSeq(pairs, Kept)
    IN [k \in 1..Len(kept) |->
            Fit("ios", IOS_DIR, kept[k].base * kept[k].scale, <<12, 100>>,
                IosName(kept[k].base, kept[k].scale, kept[k].base * kept[k].scale))]
       \o << Fit("ios", IOS_DIR, 167, <<12, 100>>,
                 <<"Icon-", "8", "3", ".", "5", "pt@", "2", "x-", "1", "6", "7", ".png">>),
             Fit("ios", IOS_DIR, 1024, <<12, 100>>,
                 <<"AppStore-", "1", "0", "2", "4", ".png">>) >>

android_sizes ==
    << <<"mipmap-mdpi", 48>>, <<"mipmap-hdpi", 72>>, <<"mipmap-xhdpi", 96>>,
       <<"mipmap-xxhdpi", 144>>, <<"mipmap-xxxhdpi", 192>> >>

AndroidOps ==
    [k \in 1..Len(android_sizes) |->
        [Fit("android", ANDROID_DIR \o <<android_sizes[k][1]>>,
             android_sizes[k][2], <<10, 100>>, <<"ic_launcher.png">>)
         EXCEPT !.mk = TRUE]]
    \o << Fit("android", ANDROID_DIR, 1024, <<12, 100>>,
              <<"play-store-", "1", "0", "2", "4", ".png">>),
          Fit("android", ANDROID_DIR, 512, <<12, 100>>,
              <<"web_hi_res_", "5", "1", "2", ".png">>) >>

desktop_sizes == <<128, 256, 512, 1024>>
emoji_sizes   == <<128, 256, 512>>

DesktopOps ==
    [k \in 1..Len(desktop_sizes) |->
        Fit("desktop", <<"desktop">>, desktop_sizes[k], <<12, 100>>,
            <<"appicon-">> \o Dec(desktop_sizes[k]) \o <<".png">>)]

EmojiOps ==
    [k \in 1..Len(emoji_sizes) |->
        Fit("emoji", <<"emoji">>, emoji_sizes[k], <<8, 100>>,
            <<"emoji-">> \o Dec(emoji_sizes[k]) \o <<".png">>)]

PrintOps ==
    << Fit("print", PRINT_DIR, 3000, <<8, 100>>,
           <<"logo-", "3", "0", "0", "0", "x", "3", "0", "0", "0", ".png">>),
       Save("print", PRINT_DIR, <<"logo-cmyk.tiff">>),
       Save("print", PRINT_DIR, <<"logo.pdf">>) >>

FlagOps ==
    << Flag("flags", <<"flags">>, 3, 2, 900,
            <<"flag-", "9", "0", "0", "x", "6", "0", "0", "-", "3", "x", "2", ".png">>),
       Flag("flags", <<"flags">>, 5, 3, 1500,
            <<"flag-", "1", "5", "0", "0", "x", "9", "0", "0", "-", "5", "x", "3", ".png">>) >>

ReadmeOps == << Save("pack", <<OUT_ROOT>>, <<"README.md">>) >>

\* the outcome of the computation of one step of main on im_trans
Compute(op) ==
    CASE op.kind = "fit"    -> fit_on_square(im_trans, op.w, op.pad)
      [] op.kind = "center" -> center_on_canvas(im_trans, op.w, op.h, op.pad)
      [] op.kind = "flag"   -> flag_mockup(im_trans, op.pad[1], op.h, op.w)
      [] OTHER              -> [st |-> "ok", img |-> im_trans]

\* the pixel dimensions of what a step computed (<<>> when it computed nothing)
Canvas(op, r) ==
    CASE op.kind = "save" -> <<>>
      [] op.kind = "flag" -> <<r.width, r.height>>
      [] OTHER            -> <<r.canvas_w, r.canvas_h>>

ZeroSized(image) == image.width = 0 \/ image.height = 0

Abort(e) == pc' = "error" /\ err' = e

(***************************************************************************)
(* One step of a group of main: the next operation of ops, then on to the  *)
(* next operation or, after the last one, to the group that follows.  An   *)
(* exception ends the run.  Saving an image of zero width or height is     *)
(* left to the encoder, which may or may not raise.                        *)
(***************************************************************************)
Step(ops, next) ==
    /\ LET op    == ops[idx]
           made  == IF op.mk THEN ensure(op.dir, dirs) ELSE dirs
           r     == Compute(op)
       IN /\ dirs' = made
          /\ reads' = IF op.kind = "save" THEN reads ELSE reads \cup {im_trans}
          /\ im_trans' = r.img
          /\ IF r.st = "raised"
             THEN Abort(r.exc) /\ UNCHANGED <<writes, idx>>
             ELSE IF ~DirExists(op.dir, made)
             THEN Abort("FileNotFoundError") /\ UNCHANGED <<writes, idx>>
             ELSE \E encoded \in (IF op.kind = "save" /\ ZeroSized(im)
                                  THEN BOOLEAN ELSE {TRUE}) :
                    IF ~encoded
                    THEN Abort("EncoderError") /\ UNCHANGED <<writes, idx>>
                    ELSE /\ writes' = Append(writes,
                                [group |-> op.group, dir |-> op.dir,
                                 name |-> op.name, canvas |-> Canvas(op, r)])
                         /\ err' = err
                         /\ IF idx < Len(ops)
                            THEN idx' = idx + 1 /\ pc' = pc
                            ELSE idx' = 1 /\ pc' = next
    /\ UNCHANGED <<cwdFiles, decodable, cwdDirs, src_path, im, removeCount>>
    /\ UNCHANGED fnVars

MainPixels == {<<250, 250, 250, 255>>, <<200, 30, 30, 255>>}

InitMain ==
    /\ img = NotRun /\ args = NotRun
    /\ sq = NotRun /\ rect = NotRun /\ flag = NotRun /\ bgout = NotRun
    /\ pc = "find_input"
    /\ cwdFiles \in SUBSET CwdUniverse
    /\ decodable \in BOOLEAN
    /\ cwdDirs \in SUBSET {"desktop", "emoji", "flags"}
    /\ src_path = ""
    /\ im \in { [width |-> w, height |-> h, mode |-> "RGBA", px |-> p] :
                    w \in 0..MaxMainSrc, h \in 0..MaxMainSrc, p \in MainPixels }
    /\ im_trans = NotRun
    /\ dirs = {} /\ writes = <<>> /\ idx = 1
    /\ removeCount = 0 /\ reads = {} /\ err = "none"

\* src_path = find_input(".")
FindInput ==
    /\ pc = "find_input"
    /\ src_path' = find_input(cwdFiles)
    /\ IF src_path' = "" THEN Abort("FileNotFoundError")
       ELSE pc' = "open" /\ err' = err
    /\ UNCHANGED <<cwdFiles, decodable, cwdDirs, im, im_trans, dirs, writes,
                   idx, removeCount, reads>>
    /\ UNCHANGED fnVars

\* im = Image.open(src_path).convert("RGBA"); im holds the decoded image
OpenImage ==
    /\ pc = "open"
    /\ IF decodable THEN pc' = "remove_bg" /\ err' = err
       ELSE Abort("UnidentifiedImageError")
    /\ UNCHANGED <<cwdFiles, decodable, cwdDirs, src_path, im, im_trans, dirs,
                   writes, idx, removeCount, reads>>
    /\ UNCHANGED fnVars

\* im_trans = remove_near_white_bg(im); on an image of zero width or height
\* the array round trip is left to the libraries, which may or may not raise
RemoveBg ==
    /\ pc = "remove_bg"
    /\ \E converted \in (IF ZeroSized(im) THEN BOOLEAN ELSE {TRUE}) :
          IF converted
          THEN /\ im_trans' = remove_near_white_bg(im, DefaultThreshold,
                                                   DefaultTolerance)
               /\ removeCount' = removeCount + 1
               /\ pc' = "ensure" /\ err' = err
          ELSE /\ Abort("ArrayError")
               /\ UNCHANGED <<im_trans, removeCount>>
    /\ UNCHANGED <<cwdFiles, decodable, cwdDirs, src_path, im, dirs, writes,
                   idx, reads>>
    /\ UNCHANGED fnVars

AllDirs == <<SRC_DIR, WEB_DIR, IOS_DIR, ANDROID_DIR, DESKTOP_DIR, EMOJI_DIR,
             PRINT_DIR, FLAGS_DIR, SOCIAL_DIR>>

RECURSIVE EnsureAll(_, _)
EnsureAll(ds, made) ==
    IF ds = <<>> THEN made ELSE EnsureAll(Tail(ds), ensure(Head(ds), made))

\* the nine ensure(os.path.join(OUT_ROOT, ...)) calls
EnsureDirs ==
    /\ pc = "ensure"
    /\ dirs' = EnsureAll(AllDirs, dirs)
    /\ pc' = "source"
    /\ UNCHANGED <<cwdFiles, decodable, cwdDirs, src_path, im, im_trans,
                   writes, idx, removeCount, reads, err>>
    /\ UNCHANGED fnVars

SaveSources ==
    /\ pc = "source"
    /\ Step(SourceOps, "web")
Web ==
    /\ pc = "web"
    /\ Step(WebOps, "social")
Social ==
    /\ pc = "social"
    /\ Step(SocialOps, "ios")
Ios ==
    /\ pc = "ios"
    /\ Step(IosOps, "android")
Android ==
    /\ pc = "android"
    /\ Step(AndroidOps, "desktop")
Desktop ==
    /\ pc = "desktop"
    /\ Step(DesktopOps, "emoji")
Emoji ==
    /\ pc = "emoji"
    /\ Step(EmojiOps, "print")
PrintGroup ==
    /\ pc = "print"
    /\ Step(PrintOps, "flags")
Flags ==
    /\ pc = "flags"
    /\ Step(FlagOps, "readme")
Readme ==
    /\ pc = "readme"
    /\ Step(ReadmeOps, "done")

NextMain ==
    \/ FindInput \/ OpenImage \/ RemoveBg \/ EnsureDirs \/ SaveSources
    \/ Web \/ Social \/ Ios \/ Android \/ Desktop \/ Emoji \/ PrintGroup
    \/ Flags \/ Readme

SpecMain == InitMain /\ [][NextMain]_vars

(***************************************************************************)
(* Properties of the placement functions (under SpecPlace).                *)
(***************************************************************************)
Outcomes == {sq, rect}
Placed   == {r \in Outcomes : r.st = "ok"}

\* floor(cdim * (1 - 2*pad)), characterised by its defining inequalities
RuleMax(cdim, pad) ==
    CHOOSE k \in 0..cdim :
        /\ k * pad[2] <= cdim * (pad[2] - 2 * pad[1])
        /\ cdim * (pad[2] - 2 * pad[1]) < (k + 1) * pad[2]

\* src_side * min(max_w/src_w, max_h/src_h) as a fraction <<num, den>>
RuleScaledSide(side, r) ==
    LET mw == RuleMax(r.canvas_w, args.pad)
        mh == RuleMax(r.canvas_h, args.pad)
    IN IF mw * img.height <= mh * img.width
       THEN <<side * mw, img.width>>
       ELSE <<side * mh, img.height>>

IsFloor(k, q)   == k * q[2] <= q[1] /\ q[1] < (k + 1) * q[2]
\* k is an integer nearest to q (either neighbour on a tie)
IsNearest(k, q) == 2 * k * q[2] - 2 * q[1] <= q[2] /\ 2 * q[1] - 2 * k * q[2] <= q[2]
IsHalfFloor(k, d) == 2 * k <= d /\ d <= 2 * k + 1

\* C1: for a source of at least 1x1, a canvas of at least 1x1 and a pad ratio
\* in [0, 0.5), the content placed by fit_on_square and by center_on_canvas
\* has new_w <= canvas_w*(1 - 2*pad_ratio) + 1 and
\* new_h <= canvas_h*(1 - 2*pad_ratio) + 1, the clamp to 1 included.
C1_PaddedBound ==
    \A r \in Placed :
        /\ r.new_w * args.pad[2]
             <= r.canvas_w * (args.pad[2] - 2 * args.pad[1]) + args.pad[2]
        /\ r.new_h * args.pad[2]
             <= r.canvas_h * (args.pad[2] - 2 * args.pad[1]) + args.pad[2]

\* both functions have placed content, and the clamp to 1 applied on an axis
\* whose padded side is 0 while the other axis has room
C1_Witness ==
    /\ sq.st = "ok" /\ rect.st = "ok"
    /\ RuleMax(args.h, args.pad) = 0 /\ rect.new_h = 1
    /\ RuleMax(args.w, args.pad) >= 2

C9_OneByOneStaysOne ==
    (img.width = 1 /\ img.height = 1) =>
        \A r \in Outcomes :
            r.st # "none" => (r.st = "ok" /\ r.new_w = 1 /\ r.new_h = 1)

\* C9 as amended: for a 1x1 source the placement does not fail, and the
\* content is the square of side max(1, min(max_w, max_h)): the pixel is
\* scaled up to the padded box, and is 1x1 only when that box is at most 1.
C9_OneByOneFillsBox ==
    (img.width = 1 /\ img.height = 1) =>
        \A r \in Outcomes :
            r.st # "none" =>
                /\ r.st = "ok"
                /\ r.new_w = r.new_h
                /\ r.new_w = Max(1, Min(RuleMax(r.canvas_w, args.pad),
                                        RuleMax(r.canvas_h, args.pad)))

\* a 1x1 source placed by both functions, once clamped and once scaled up
C9_Witness ==
    /\ img.width = 1 /\ img.height = 1
    /\ sq.st = "ok" /\ rect.st = "ok"
    /\ rect.new_w = 1 /\ RuleMax(args.h, args.pad) = 0
    /\ sq.new_w > 1

SameGeometry(a, b) ==
    /\ a.st = b.st
    /\ a.st = "ok" =>
        /\ a.canvas_w = b.canvas_w /\ a.canvas_h = b.canvas_h
        /\ a.new_w = b.new_w /\ a.new_h = b.new_h
        /\ a.x = b.x /\ a.y = b.y

BothRunSquare == args.w = args.h /\ sq.st # "none" /\ rect.st # "none"

\* C10 as claimed: fit_on_square(image, size, pad) and
\* center_on_canvas(image, size, size, pad) yield the same canvas: size x size,
\* same content size and offset, same background fill.
C10_SameCanvas ==
    BothRunSquare =>
        /\ SameGeometry(sq, rect)
        /\ sq.st = "ok" =>
            /\ sq.canvas_w = args.w /\ sq.canvas_h = args.w
            /\ sq.fill = rect.fill

\* C10 as amended: the two calls yield canvases of the same dimensions
\* (size x size), the same content size and offset, and a fully transparent
\* background (alpha 0) in both; the colour channels of the background
\* differ, (0,0,0) for fit_on_square and (255,255,255) for center_on_canvas.
C10_SameGeometryTransparent ==
    BothRunSquare =>
        /\ SameGeometry(sq, rect)
        /\ sq.st = "ok" =>
            /\ sq.canvas_w = args.w /\ sq.canvas_h = args.w
            /\ sq.fill[4] = 0 /\ rect.fill[4] = 0
            /\ sq.fill = <<0, 0, 0, 0>> /\ rect.fill = <<255, 255, 255, 0>>

\* both calls made on a non-square source with a square canvas
C10_Witness ==
    /\ BothRunSquare /\ sq.st = "ok" /\ rect.st = "ok"
    /\ img.width # img.height /\ sq.new_w # sq.new_h

(***************************************************************************)
(* Properties of remove_near_white_bg (under SpecBg).                      *)
(***************************************************************************)
InRGB   == {img.px[1], img.px[2], img.px[3]}
InMax   == CHOOSE v \in InRGB : \A u \in InRGB : v >= u
InMin   == CHOOSE v \in InRGB : \A u \in InRGB : v <= u
InAlpha == IF img.mode = "RGB" THEN 255 ELSE img.px[4]

\* C3: for every pixel, threshold in [0,255] and tolerance in [0,255), the
\* output alpha is 0 if max(R,G,B) > threshold and max - min < tolerance and
\* otherwise the input alpha (255 for an input without alpha channel); a pixel
\* with max - min >= tolerance keeps its alpha whatever its brightness; R, G
\* and B are unchanged.
C3_AlphaRule ==
    bgout.st = "ok" =>
        /\ bgout.out.px[4] =
             IF InMax > args.threshold /\ InMax - InMin < args.tolerance
             THEN 0 ELSE InAlpha
        /\ (InMax - InMin >= args.tolerance) => bgout.out.px[4] = InAlpha
        /\ \A c \in 1..3 : bgout.out.px[c] = img.px[c]

\* an image without alpha channel whose bright grey pixel was made
\* transparent at the default threshold and tolerance
C3_Witness ==
    /\ bgout.st = "ok" /\ img.mode = "RGB"
    /\ args.threshold = 245 /\ args.tolerance = 15
    /\ img.px = <<246, 255, 245>> /\ bgout.out.px = <<246, 255, 245, 0>>

(***************************************************************************)
(* Properties of flag_mockup (under SpecFlag).                             *)
(***************************************************************************)
\* Positions probed on each axis: the canvas edges and both sides of each
\* edge of the content box.
Probes(lo, len, dim) ==
    {0, lo - 1, lo, lo + len - 1, lo + len, dim - 1} \cap (0..(dim - 1))

Covered(r, i, j) ==
    /\ r.x <= i /\ i < r.x + r.new_w
    /\ r.y <= j /\ j < r.y + r.new_h
    /\ r.content[4] > 0

FlagBackdropWhite ==
    \A i \in Probes(flag.placed.x, flag.placed.new_w, flag.width) :
        \A j \in Probes(flag.placed.y, flag.placed.new_h, flag.height) :
            /\ FlagPixel(flag, i, j)[4] = 255
            /\ ~Covered(flag.placed, i, j) =>
                   FlagPixel(flag, i, j) = <<255, 255, 255, 255>>

FlagMainCalls ==
    /\ (args = [rw |-> 3, rh |-> 2, w |-> 900]) =>
           (flag.width = 900 /\ flag.height = 600)
    /\ (args = [rw |-> 5, rh |-> 3, w |-> 1500]) =>
           (flag.width = 1500 /\ flag.height = 900)

Written(g) == {k \in DOMAIN writes : writes[k].group = g}

\* C4: the transparent intermediate is produced by exactly one background
\* removal, completed before the first placement begins, and no placement,
\* save or post-conversion modifies it afterwards: every placement of the
\* batch reads the same, unchanged transparent image.
C4_RemovedOnceThenReadOnly ==
    /\ [](removeCount <= 1)
    /\ [](reads # {} => (removeCount = 1 /\ reads = {im_trans}))
    /\ [][removeCount = 1 => (im_trans' = im_trans /\ removeCount' = 1)]_vars

\* a complete batch whose sixty-odd placements all read the one image in
\* which the removal made the near-white pixel transparent
C4_Witness ==
    /\ pc = "done" /\ removeCount = 1
    /\ reads = {im_trans} /\ im_trans.px = <<250, 250, 250, 0>>
    /\ Len(writes) > 50

PlatformGroups == {"web", "ios", "android", "desktop", "emoji", "print",
                   "flags", "social", "source"}

\* C5: every artifact main writes is written to a path inside the output
\* root logo_asset_pack, under the folder of its own platform group, and no
\* two artifacts are written to the same path.
C5_InsideRootDisjoint ==
    /\ \A k \in DOMAIN writes :
          writes[k].group \in PlatformGroups =>
              /\ Len(writes[k].dir) >= 2
              /\ writes[k].dir[1] = "logo_asset_pack"
              /\ writes[k].dir[2] = writes[k].group
    /\ \A j, k \in DOMAIN writes :
          j # k => <<writes[j].dir, writes[j].name>> # <<writes[k].dir, writes[k].name>>

FatalInput == src_path = "" \/ ~decodable \/ ZeroSized(im)

IosBases  == {20, 29, 40, 60, 76, 83}
IosScales == {1, 2, 3}

IosExpected ==
    ({ [name |-> IosName(b, sc, b * sc), canvas |-> <<b * sc, b * sc>>] :
          b \in IosBases, sc \in IosScales }
       \ { [name |-> IosName(83, 1, 83), canvas |-> <<83, 83>>] })
    \cup { [name |-> <<"Icon-", "8", "3", ".", "5", "pt@", "2", "x-", "1", "6", "7", ".png">>,
            canvas |-> <<167, 167>>],
           [name |-> <<"AppStore-", "1", "0", "2", "4", ".png">>,
            canvas |-> <<1024, 1024>>] }

IosGot == { [name |-> writes[k].name, canvas |-> writes[k].canvas] :
               k \in Written("ios") }

\* C7: the iOS group produces exactly 19 artifacts with pairwise distinct
\* filenames: one per (base, scale) of {20,29,40,60,76,83} x {1,2,3} with
\* pixel size base*scale, never (83,1), plus the 167px entry for base 83.5
\* scale 2 and the 1024px store icon.
C7_IosNineteen ==
    /\ IosGot \subseteq IosExpected
    /\ Cardinality({writes[k].name : k \in Written("ios")})
          = Cardinality(Written("ios"))
    /\ \A k \in Written("ios") : writes[k].dir = <<"logo_asset_pack", "ios">>
    /\ pc \in {"android", "desktop", "emoji", "print", "flags", "readme", "done"} =>
          /\ IosGot = IosExpected
          /\ Cardinality(Written("ios")) = 19

\* the iOS group has just finished with its 19 files
C7_Witness ==
    /\ pc = "android" /\ idx = 1
    /\ Cardinality(Written("ios")) = 19
    /\ writes[Len(writes)].name = <<"AppStore-", "1", "0", "2", "4", ".png">>

====
